---- MODULE Spec2Model ----
(***************************************************************************)
(* factbuddy backend: the websocket endpoint that transcribes audio        *)
(* fragments, aggregates them into a per-client running statement and      *)
(* launches streaming fact-check runs (be/main.py, be/fact_checker/agent.py)*)
(*                                                                         *)
(* Text is a sequence of one-character strings, so that str.strip() and    *)
(* string concatenation are modelled by what they do.                      *)
(***************************************************************************)
EXTENDS Integers, Sequences, FiniteSets, TLC

\* ----------------------------------------------------------------- bounds
\* binary/text messages one connection delivers before the client goes quiet
MaxFrags == 2
\* documents search_and_scrape returns (the code caps the candidates at 10)
MaxDocs == 2

\* ------------------------------------------------------------- constants
max_context_items == 5

Clients == {"c1", "c2"}

\* the clients connected from the start, unless a specification says otherwise
FirstClients == {"c1"}

\* what model.transcribe can return for one audio segment; <<>> also stands
\* for process_audio_chunk's "" on an invalid file or a Whisper exception
Transcripts ==
    { <<>>, <<" ">>, <<"a">>, <<" ", "b", " ">> }

\* how the completeness evaluation (a language-model call) can end
EvalOutcomes == {"incomplete", "complete_append", "complete_new", "raises", "unparseable"}

\* ------------------------------------------------------------------ text
RECURSIVE LStrip(_)
LStrip(s) ==
    IF s = <<>> THEN <<>>
    ELSE IF Head(s) = " " THEN LStrip(Tail(s)) ELSE s

RECURSIVE RStrip(_)
RStrip(s) ==
    IF s = <<>> THEN <<>>
    ELSE IF s[Len(s)] = " " THEN RStrip(SubSeq(s, 1, Len(s) - 1)) ELSE s

\* str.strip()
Strip(s) == RStrip(LStrip(s))

\* the join without .strip()
AppendFragment_NoStrip(current, t) == current \o <<" ">> \o t

\* (current + " " + transcription).strip()
AppendFragment(current, t) == Strip(current \o <<" ">> \o t)

\* ----------------------------------------------------------------- state
VARIABLES
    connOpen,            \* per client: the websocket is still connected
    active_connections,  \* ConnectionManager.active_connections (its keys)
    hpc,                 \* per client: where websocket_endpoint is suspended
    nrecv,               \* per client: messages received so far
    transcription,       \* per client: the local `transcription`
    new_running,         \* per client: the local `new_running`
    evaluation,          \* per client: the local `evaluation`
    client_statements,   \* the global dict, <<>> where a key is absent or ""
    last_fact_checked_statement,  \* the global dict, <<>> where absent
    hevents,             \* per client: events the endpoint itself has sent
    runs,                \* the stream_fact_check tasks, in creation order
    context_window,      \* FactCheckAgent.context_window
    since,               \* history: fragments aggregated since the last reset
    evalLog,             \* history: how each of a client's evaluations ended
    agent_call,          \* a FactCheckAgent method called on its own: its input
    agent_result         \* what that call returned

vars ==
    << connOpen, active_connections, hpc, nrecv, transcription, new_running,
       evaluation, client_statements, last_fact_checked_statement, hevents,
       runs, context_window, since, evalLog, agent_call, agent_result >>

\* the variables of a method call made on its own
agent_vars == << agent_call, agent_result >>

NoCall == [method |-> "none"]

\* ---------------------------------------------------------------- events
\* one JSON message passed to websocket.send_json; progress is the exact
\* rational num/den (the code computes it in floating point)
Event(type, phase, num, den, arg) ==
    [type |-> type, phase |-> phase, num |-> num, den |-> den, arg |-> arg]

Status(phase, progress) == Event("status", phase, progress, 1, "")
ErrorEvent == Event("error", "", 0, 1, "")
TranscriptionEvent(t) == Event("transcription", "", 0, 1, t)

\* ----------------------------------------------- completeness evaluation
\* FactCheckAgent.evaluate_fact_statement: a failed or unparseable
\* evaluation is absorbed into the default decision
evaluate_fact_statement(outcome) ==
    CASE outcome = "complete_new"    -> [complete |-> TRUE,  action |-> "new"]
      [] outcome = "complete_append" -> [complete |-> TRUE,  action |-> "append"]
      [] OTHER                       -> [complete |-> FALSE, action |-> "append"]

NoEvaluation == [complete |-> FALSE, action |-> "none"]

\* ------------------------------------------------------ websocket endpoint
\* the test without .strip()
Accepted_NonEmpty(t) == t # <<>>

\* `if transcription.strip():`
Accepted(t) == Strip(t) # <<>>

\* the task is started whatever the decision
ShouldLaunch_Always(ev) == TRUE

\* `if evaluation.get("complete"):`
ShouldLaunch(ev) == ev.complete

\* the reset is done for every complete statement
ShouldReset_Always(ev) == TRUE

\* `if evaluation.get("action") == "new":`, inside the branch above
ShouldReset(ev) == ev.action = "new"

\* the endpoint awaits the coroutine itself and stays in it until it ends
ResumeAt_AwaitedRun(ev) == IF ev.complete THEN "await_run" ELSE "receive"

\* asyncio.create_task returns at once and the task is never awaited: the
\* endpoint goes round its loop to the next receive()
ResumeAt(ev) == "receive"

\* the coroutine object handed to asyncio.create_task
NewRun(c, statement) ==
    [client |-> c, statement |-> statement, pc |-> "send_status0",
     n |-> 0, i |-> 0, events |-> <<>>, cause |-> "none", prompt |-> <<>>]

\* the state once the clients of `connected` have been accepted by
\* manager.connect; a client that never connected has no endpoint coroutine
InitWith(connected) ==
    /\ connOpen = [c \in Clients |-> c \in connected]
    /\ active_connections = connected
    /\ hpc = [c \in Clients |-> IF c \in connected THEN "receive" ELSE "absent"]
    /\ nrecv = [c \in Clients |-> 0]
    /\ transcription = [c \in Clients |-> <<>>]
    /\ new_running = [c \in Clients |-> <<>>]
    /\ evaluation = [c \in Clients |-> NoEvaluation]
    /\ client_statements = [c \in Clients |-> <<>>]
    /\ last_fact_checked_statement = [c \in Clients |-> <<>>]
    /\ hevents = [c \in Clients |-> <<>>]
    /\ runs = <<>>
    /\ context_window = <<>>
    /\ since = [c \in Clients |-> <<>>]
    /\ evalLog = [c \in Clients |-> <<>>]

Init ==
    /\ InitWith(FirstClients)
    /\ agent_call = NoCall
    /\ agent_result = NoCall

\* the client closes the connection
Disconnect(c) ==
    /\ UNCHANGED agent_vars
    /\ connOpen[c]
    /\ connOpen' = [connOpen EXCEPT ![c] = FALSE]
    /\ UNCHANGED << active_connections, hpc, nrecv, transcription, new_running,
                    evaluation, client_statements, last_fact_checked_statement,
                    hevents, runs, context_window, since, evalLog >>

\* a send on the closed socket raised inside the inner try; the handler's own
\* send_json raises again and leaves the loop through one of the outer except
\* clauses: WebSocketDisconnect calls manager.disconnect, any other exception
\* is logged
LeaveLoop(c) ==
    /\ hpc' = [hpc EXCEPT ![c] = "exited"]
    /\ \E viaDisconnect \in BOOLEAN :
         active_connections' =
             IF viaDisconnect THEN active_connections \ {c} ELSE active_connections

\* a binary message: the audio is saved, transcribed and the file deleted
ReceiveAudio(c, t) ==
    /\ UNCHANGED agent_vars
    /\ hpc[c] = "receive"
    /\ connOpen[c]
    /\ nrecv[c] < MaxFrags
    /\ nrecv' = [nrecv EXCEPT ![c] = @ + 1]
    /\ transcription' = [transcription EXCEPT ![c] = t]
    /\ hpc' = [hpc EXCEPT ![c] = IF Accepted(t) THEN "send_transcription" ELSE "receive"]
    /\ UNCHANGED << connOpen, active_connections, new_running, evaluation,
                    client_statements, last_fact_checked_statement, hevents,
                    runs, context_window, since, evalLog >>

\* a binary message whose file cannot be written: the inner except sends an
\* error event and the loop goes on
ReceiveAudioSaveFails(c) ==
    /\ UNCHANGED agent_vars
    /\ hpc[c] = "receive"
    /\ connOpen[c]
    /\ nrecv[c] < MaxFrags
    /\ nrecv' = [nrecv EXCEPT ![c] = @ + 1]
    /\ hevents' = [hevents EXCEPT ![c] = Append(@, ErrorEvent)]
    /\ UNCHANGED << connOpen, active_connections, hpc, transcription, new_running,
                    evaluation, client_statements, last_fact_checked_statement,
                    runs, context_window, since, evalLog >>

\* a text message: parsed and logged, an error event when it is not JSON
ReceiveText(c, isJson) ==
    /\ UNCHANGED agent_vars
    /\ hpc[c] = "receive"
    /\ connOpen[c]
    /\ nrecv[c] < MaxFrags
    /\ nrecv' = [nrecv EXCEPT ![c] = @ + 1]
    /\ hevents' = [hevents EXCEPT ![c] = IF isJson THEN @ ELSE Append(@, ErrorEvent)]
    /\ UNCHANGED << connOpen, active_connections, hpc, transcription, new_running,
                    evaluation, client_statements, last_fact_checked_statement,
                    runs, context_window, since, evalLog >>

\* receive() on a closed connection: the disconnect message is logged as an
\* unknown message and the next receive() raises
ReceiveClosed(c) ==
    /\ UNCHANGED agent_vars
    /\ hpc[c] = "receive"
    /\ ~connOpen[c]
    /\ hpc' = [hpc EXCEPT ![c] = "exited"]
    /\ UNCHANGED << connOpen, active_connections, nrecv, transcription, new_running,
                    evaluation, client_statements, last_fact_checked_statement,
                    hevents, runs, context_window, since, evalLog >>

\* the transcription event is sent and the fragment joins the running
\* statement; then the endpoint awaits the evaluation
SendTranscription(c) ==
    /\ UNCHANGED agent_vars
    /\ hpc[c] = "send_transcription"
    /\ IF connOpen[c]
       THEN /\ hevents' = [hevents EXCEPT ![c] = Append(@, TranscriptionEvent(transcription[c]))]
            /\ new_running' = [new_running EXCEPT
                   ![c] = AppendFragment(client_statements[c], transcription[c])]
            /\ client_statements' = [client_statements EXCEPT ![c] = new_running'[c]]
            /\ since' = [since EXCEPT ![c] = Append(@, transcription[c])]
            /\ hpc' = [hpc EXCEPT ![c] = "evaluate"]
            /\ UNCHANGED active_connections
       ELSE /\ LeaveLoop(c)
            /\ UNCHANGED << hevents, new_running, client_statements, since >>
    /\ UNCHANGED << connOpen, nrecv, transcription, evaluation,
                    last_fact_checked_statement, runs, context_window, evalLog >>

\* the evaluation returns; a complete statement starts a fact-check task and,
\* for action "new", the running statement is reset
Evaluate(c, outcome) ==
    /\ UNCHANGED agent_vars
    /\ hpc[c] = "evaluate"
    /\ evaluation' = [evaluation EXCEPT ![c] = evaluate_fact_statement(outcome)]
    /\ evalLog' = [evalLog EXCEPT ![c] = Append(@, outcome)]
    /\ runs' = IF ShouldLaunch(evaluation'[c])
               THEN Append(runs, NewRun(c, new_running[c]))
               ELSE runs
    /\ client_statements' =
           IF ShouldLaunch(evaluation'[c]) /\ ShouldReset(evaluation'[c])
           THEN [client_statements EXCEPT ![c] = <<>>]
           ELSE client_statements
    /\ since' = IF evaluation'[c].action = "new"
                THEN [since EXCEPT ![c] = <<>>]
                ELSE since
    /\ hpc' = [hpc EXCEPT ![c] = ResumeAt(evaluation'[c])]
    /\ UNCHANGED << connOpen, active_connections, nrecv, transcription, new_running,
                    last_fact_checked_statement, hevents, context_window >>

\* ------------------------------------------------------ stream_fact_check
\* analyze_context, before its language-model call
PushContext(window, statement) ==
    LET w == Append(window, statement)
    IN  IF Len(w) > max_context_items THEN Tail(w) ELSE w

\* the progress computed from i instead of i + 1
SourceProgress_FromZero(i, n) == [num |-> 60 * n + 20 * i, den |-> n]

\* the progress computed without the division by len(sources)
SourceProgress_NoDivision(i, n) == [num |-> 60 + 20 * (i + 1), den |-> 1]

\* `60 + (20 * (i + 1) / len(sources))`, i counted from 0, as num/den
SourceProgress(i, n) == [num |-> 60 * n + 20 * (i + 1), den |-> n]

SendPcs ==
    { "send_status0", "send_context", "send_status20", "send_query", "send_status40",
      "send_sources", "send_status60", "send_analysis", "send_progress",
      "send_status90", "send_status100", "send_factCheck" }

StagePcs ==
    { "analyze_context", "generate_search_query", "search_and_scrape",
      "analyze_source", "synthesize" }

FinalPcs == { "done", "error", "escaped" }

\* "source" of the analysis event sent after analyze_context
ContextSource == [source |-> "Context Analysis", rank |-> 0]

\* "source" of the analysis event of sources[i]: its url, which stands for
\* its rank in the list search_and_scrape returned
DocumentSource(rank) == [source |-> "url", rank |-> rank]

\* the message of the send_json the run is suspended before
EventAt(r) ==
    CASE r.pc = "send_status0"   -> Status("context", 0)
      [] r.pc = "send_context"   -> Event("analysis", "", 0, 1, ContextSource)
      [] r.pc = "send_status20"  -> Status("search", 20)
      [] r.pc = "send_query"     -> Event("search", "", 0, 1, 0)
      [] r.pc = "send_status40"  -> Status("sources", 40)
      [] r.pc = "send_sources"   -> Event("search", "", 0, 1, r.n)
      [] r.pc = "send_status60"  -> Status("analysis", 60)
      [] r.pc = "send_analysis"  -> Event("analysis", "", 0, 1, DocumentSource(r.i + 1))
      [] r.pc = "send_progress"  ->
             Event("status", "analysis", SourceProgress(r.i, r.n).num,
                   SourceProgress(r.i, r.n).den, "")
      [] r.pc = "send_status90"  -> Status("synthesis", 90)
      [] r.pc = "send_status100" -> Status("complete", 100)
      [] r.pc = "send_factCheck" -> Event("factCheck", "", 0, 1, r.statement)

\* the run ends after the completion status, without the result
AfterSend_NoResult(r) ==
    CASE r.pc = "send_status0"   -> "analyze_context"
      [] r.pc = "send_context"   -> "send_status20"
      [] r.pc = "send_status20"  -> "generate_search_query"
      [] r.pc = "send_query"     -> "send_status40"
      [] r.pc = "send_status40"  -> "search_and_scrape"
      [] r.pc = "send_sources"   -> "send_status60"
      [] r.pc = "send_status60"  -> IF r.n > 0 THEN "analyze_source" ELSE "send_status90"
      [] r.pc = "send_analysis"  -> "send_progress"
      [] r.pc = "send_progress"  -> IF r.i + 1 < r.n THEN "analyze_source" ELSE "send_status90"
      [] r.pc = "send_status90"  -> "synthesize"
      [] r.pc = "send_status100" -> "done"
      [] r.pc = "send_factCheck" -> "done"

\* the loop left after its first document
AfterSend_OneDocument(r) ==
    CASE r.pc = "send_status0"   -> "analyze_context"
      [] r.pc = "send_context"   -> "send_status20"
      [] r.pc = "send_status20"  -> "generate_search_query"
      [] r.pc = "send_query"     -> "send_status40"
      [] r.pc = "send_status40"  -> "search_and_scrape"
      [] r.pc = "send_sources"   -> "send_status60"
      [] r.pc = "send_status60"  -> IF r.n > 0 THEN "analyze_source" ELSE "send_status90"
      [] r.pc = "send_analysis"  -> "send_progress"
      [] r.pc = "send_progress"  -> "send_status90"
      [] r.pc = "send_status90"  -> "synthesize"
      [] r.pc = "send_status100" -> "send_factCheck"
      [] r.pc = "send_factCheck" -> "done"

\* where the run is suspended next, once the send has returned
AfterSend(r) ==
    CASE r.pc = "send_status0"   -> "analyze_context"
      [] r.pc = "send_context"   -> "send_status20"
      [] r.pc = "send_status20"  -> "generate_search_query"
      [] r.pc = "send_query"     -> "send_status40"
      [] r.pc = "send_status40"  -> "search_and_scrape"
      [] r.pc = "send_sources"   -> "send_status60"
      [] r.pc = "send_status60"  -> IF r.n > 0 THEN "analyze_source" ELSE "send_status90"
      [] r.pc = "send_analysis"  -> "send_progress"
      [] r.pc = "send_progress"  -> IF r.i + 1 < r.n THEN "analyze_source" ELSE "send_status90"
      [] r.pc = "send_status90"  -> "synthesize"
      [] r.pc = "send_status100" -> "send_factCheck"
      [] r.pc = "send_factCheck" -> "done"

\* the loop body without its analysis event
AfterStage_NoAnalysisEvent(r) ==
    CASE r.pc = "analyze_context"       -> "send_context"
      [] r.pc = "generate_search_query" -> "send_query"
      [] r.pc = "search_and_scrape"     -> "send_sources"
      [] r.pc = "analyze_source"        -> "send_progress"
      [] r.pc = "synthesize"            -> "send_status100"

\* where the run is suspended next, once the awaited stage has returned
AfterStage(r) ==
    CASE r.pc = "analyze_context"       -> "send_context"
      [] r.pc = "generate_search_query" -> "send_query"
      [] r.pc = "search_and_scrape"     -> "send_sources"
      [] r.pc = "analyze_source"        -> "send_analysis"
      [] r.pc = "synthesize"            -> "send_status100"

\* `except Exception as e:` of stream_fact_check: the handler's own send_json
\* delivers the error event, or raises out of the task on a closed socket
OnException(r, cause, open) ==
    IF open
    THEN [r EXCEPT !.pc = "error", !.cause = cause, !.events = Append(@, ErrorEvent)]
    ELSE [r EXCEPT !.pc = "escaped", !.cause = cause]

\* one `await websocket.send_json(...)` of the run
RunSend(k) ==
    /\ UNCHANGED agent_vars
    /\ k \in DOMAIN runs
    /\ runs[k].pc \in SendPcs
    /\ LET r == runs[k]
           open == connOpen[r.client]
       IN  IF open
           THEN /\ runs' = [runs EXCEPT ![k] =
                       [r EXCEPT !.events = Append(@, EventAt(r)),
                                 !.pc = AfterSend(r),
                                 !.prompt = IF r.pc = "send_status0"
                                            THEN PushContext(context_window, r.statement)
                                            ELSE @,
                                 !.i = IF r.pc = "send_progress" THEN @ + 1 ELSE @]]
                /\ context_window' =
                       IF r.pc = "send_status0"
                       THEN PushContext(context_window, r.statement)
                       ELSE context_window
           ELSE /\ runs' = [runs EXCEPT ![k] = OnException(r, "send", open)]
                /\ UNCHANGED context_window
    /\ UNCHANGED << connOpen, active_connections, hpc, nrecv, transcription,
                    new_running, evaluation, client_statements,
                    last_fact_checked_statement, hevents, since, evalLog >>

\* an awaited stage returns; search_and_scrape returns n documents
RunStageReturns(k, n) ==
    /\ UNCHANGED agent_vars
    /\ k \in DOMAIN runs
    /\ runs[k].pc \in StagePcs
    /\ runs[k].pc # "search_and_scrape" => n = 0
    /\ runs' = [runs EXCEPT ![k] =
           [@ EXCEPT !.pc = AfterStage(runs[k]),
                     !.n = IF runs[k].pc = "search_and_scrape" THEN n ELSE @]]
    /\ UNCHANGED << connOpen, active_connections, hpc, nrecv, transcription,
                    new_running, evaluation, client_statements,
                    last_fact_checked_statement, hevents, context_window, since,
                    evalLog >>

\* an awaited stage raises
RunStageRaises(k) ==
    /\ UNCHANGED agent_vars
    /\ k \in DOMAIN runs
    /\ runs[k].pc \in StagePcs
    /\ runs' = [runs EXCEPT ![k] = OnException(runs[k], "stage", connOpen[runs[k].client])]
    /\ UNCHANGED << connOpen, active_connections, hpc, nrecv, transcription,
                    new_running, evaluation, client_statements,
                    last_fact_checked_statement, hevents, context_window, since,
                    evalLog >>

\* every message launches at most one run
RunIds == 1 .. MaxFrags

Next ==
    \/ \E c \in Clients : Disconnect(c)
    \/ \E c \in Clients, t \in Transcripts : ReceiveAudio(c, t)
    \/ \E c \in Clients : ReceiveAudioSaveFails(c)
    \/ \E c \in Clients, isJson \in BOOLEAN : ReceiveText(c, isJson)
    \/ \E c \in Clients : ReceiveClosed(c)
    \/ \E c \in Clients : SendTranscription(c)
    \/ \E c \in Clients, o \in EvalOutcomes : Evaluate(c, o)
    \/ \E k \in RunIds : RunSend(k)
    \/ \E k \in RunIds, n \in 0 .. MaxDocs : RunStageReturns(k, n)
    \/ \E k \in RunIds : RunStageRaises(k)

Spec == Init /\ [][Next]_vars

\* every client connected from the start, MaxFrags audio messages between them
InitAll ==
    /\ InitWith(Clients)
    /\ agent_call = NoCall
    /\ agent_result = NoCall

RECURSIVE Received(_)
\* the messages received so far over all connections
Received(cs) ==
    IF cs = {} THEN 0
    ELSE LET c == CHOOSE x \in cs : TRUE
         IN  nrecv[c] + Received(cs \ {c})

\* clients that send audio and stay connected
NextAll ==
    \/ \E c \in Clients, t \in Transcripts :
           Received(Clients) < MaxFrags /\ ReceiveAudio(c, t)
    \/ \E c \in Clients : SendTranscription(c)
    \/ \E c \in Clients, o \in EvalOutcomes : Evaluate(c, o)
    \/ \E k \in RunIds : RunSend(k)
    \/ \E k \in RunIds, n \in 0 .. MaxDocs : RunStageReturns(k, n)
    \/ \E k \in RunIds : RunStageRaises(k)

SpecAll == InitAll /\ [][NextAll]_vars

\* the event loop resumes every task whose awaited send or call has ended, and
\* every awaited call ends (it returns or raises)
RunStep(k) ==
    \/ RunSend(k)
    \/ \E n \in 0 .. MaxDocs : RunStageReturns(k, n)
    \/ RunStageRaises(k)

FairSpec == Spec /\ \A k \in RunIds : WF_vars(RunStep(k))

\* ------------------------------------------------- FactCheckAgent methods
\* the methods of the agent that compute a value from their arguments and
\* from what the network or the language model answered, each called on its
\* own

Min(a, b) == IF a < b THEN a ELSE b

RECURSIVE SumSeq(_)
SumSeq(xs) == IF xs = <<>> THEN 0 ELSE Head(xs) + SumSeq(Tail(xs))

\* ---- scrape_url and search_and_scrape
\* `[:10]` on the links of the result page
UrlLimit == 10

\* `text[:5000]`
ContentLimit == 5000

\* the longest list of links on a result page
MaxLinks == 11

\* how many pages of one result page are not the ordinary page
MaxOddPages == 2

\* what session.get gives for a link: it raises (a timeout, a connection
\* error), or answers with a status and a page whose text has `len` characters
OrdinaryPage == [raises |-> FALSE, status |-> 200, len |-> 4000]

OddPages ==
    { [raises |-> FALSE, status |-> 200, len |-> 6000],
      [raises |-> FALSE, status |-> 404, len |-> 4000],
      [raises |-> TRUE,  status |-> 0,   len |-> 0] }

\* the result pages: up to MaxLinks links, the url of a link is its rank
ResultPages ==
    { [j \in 1 .. m |-> IF j \in DOMAIN odd THEN odd[j] ELSE OrdinaryPage] :
        m \in 0 .. MaxLinks,
        odd \in UNION { [D -> OddPages] :
                          D \in { E \in SUBSET (1 .. MaxLinks) :
                                    Cardinality(E) <= MaxOddPages } } }

\* the content kept whole
scrape_url_Untruncated(url, page) ==
    IF ~page.raises /\ page.status = 200
    THEN [url |-> url, content |-> page.len, status |-> "success"]
    ELSE [url |-> url, content |-> 0, status |-> "error"]

\* scrape_url; the content is kept as its length
scrape_url(url, page) ==
    IF ~page.raises /\ page.status = 200
    THEN [url |-> url, content |-> Min(page.len, ContentLimit), status |-> "success"]
    ELSE [url |-> url, content |-> 0, status |-> "error"]

\* search_and_scrape, given the links of the result page
search_and_scrape(links) ==
    LET urls    == SubSeq([j \in 1 .. Len(links) |-> j], 1, Min(UrlLimit, Len(links)))
        results == [j \in 1 .. Len(urls) |-> scrape_url(urls[j], links[urls[j]])]
    IN  [method  |-> "search_and_scrape",
         urls    |-> urls,
         sources |-> SelectSeq(results, LAMBDA r : r.status = "success")]

\* ---- analyze_source_credibility
\* `score = 50.0`
DefaultScore == 50

\* the longest answer of the language model, in characters
MaxText == 4

\* the characters of an answer; "Score:" stands for the marker as a whole
Alphabet == { "Score:", "\n", " ", "-", "0", "1", "9", "x" }

Answers == UNION { [1 .. n -> Alphabet] : n \in 0 .. MaxText }

DigitValue == [d \in { "0", "1", "9" } |-> IF d = "0" THEN 0 ELSE IF d = "1" THEN 1 ELSE 9]

RECURSIVE DigitsValue(_)
DigitsValue(ds) ==
    IF ds = <<>> THEN 0
    ELSE 10 * DigitsValue(SubSeq(ds, 1, Len(ds) - 1)) + DigitValue[ds[Len(ds)]]

\* the places of character ch in text
Places(text, ch) == { j \in 1 .. Len(text) : text[j] = ch }

First(S) == CHOOSE j \in S : \A k \in S : j <= k

\* text.split(sep): the pieces between the separators, as a sequence
RECURSIVE Split(_, _)
Split(text, sep) ==
    IF Places(text, sep) = {} THEN << text >>
    ELSE LET j == First(Places(text, sep))
         IN  << SubSeq(text, 1, j - 1) >> \o Split(SubSeq(text, j + 1, Len(text)), sep)

\* float(s) for a string of this alphabet: an optional sign and digits
FloatParses(cs) ==
    LET body == IF cs # <<>> /\ Head(cs) = "-" THEN Tail(cs) ELSE cs
    IN  body # <<>> /\ \A j \in 1 .. Len(body) : body[j] \in DOMAIN DigitValue

Float(cs) ==
    IF Head(cs) = "-" THEN 0 - DigitsValue(Tail(cs)) ELSE DigitsValue(cs)

\* `float(analysis.split("Score:")[1].split("\n")[0].strip())`, and 50.0 on
\* any exception
ParseScore(analysis) ==
    LET pieces == Split(analysis, "Score:")
    IN  IF Len(pieces) < 2 THEN DefaultScore
        ELSE LET cs == Strip(Split(pieces[2], "\n")[1])
             IN  IF FloatParses(cs) THEN Float(cs) ELSE DefaultScore

\* analyze_source_credibility, given the answer of the language model
analyze_source_credibility(source, analysis) ==
    [method |-> "analyze_source_credibility", url |-> source.url,
     credibility_score |-> ParseScore(analysis), analysis |-> analysis]

\* ---- synthesize_final_check
\* `sorted_sources[:3]`
TopSources == 3

\* the longest list of analysed sources
MaxSources == 4

Scores == { 10, 50, 70, 80, 90 }

\* the lists of analysed sources: the url of a source is its rank
AnalyzedSources ==
    UNION { [1 .. n -> Scores] : n \in 0 .. MaxSources }

WithUrls(scores) ==
    [j \in 1 .. Len(scores) |-> [url |-> j, credibility_score |-> scores[j]]]

\* a source put before the sources of equal score
InsertByScore_BeforeEqual(sorted, x) ==
    LET before == { j \in 1 .. Len(sorted) :
                      sorted[j].credibility_score > x.credibility_score }
        k      == Cardinality(before)
    IN  SubSeq(sorted, 1, k) \o << x >> \o SubSeq(sorted, k + 1, Len(sorted))

\* a source put into a list sorted by descending score, after the sources
\* of equal score
InsertByScore(sorted, x) ==
    LET before == { j \in 1 .. Len(sorted) :
                      sorted[j].credibility_score >= x.credibility_score }
        k      == Cardinality(before)
    IN  SubSeq(sorted, 1, k) \o << x >> \o SubSeq(sorted, k + 1, Len(sorted))

RECURSIVE Sorted(_)
\* sorted(sources, key=credibility_score, reverse=True): a stable sort
Sorted(sources) ==
    IF sources = <<>> THEN <<>>
    ELSE InsertByScore(Sorted(SubSeq(sources, 1, Len(sources) - 1)),
                       sources[Len(sources)])

\* a number that is not a number
NaN == [num |-> 0, den |-> 0]

\* np.mean, as the exact rational num/den; nan for the empty list
np_mean(xs) == IF xs = <<>> THEN NaN ELSE [num |-> SumSeq(xs), den |-> Len(xs)]

\* synthesize_final_check
synthesize_final_check(sources) ==
    LET sorted_sources == Sorted(sources)
        top_sources    == SubSeq(sorted_sources, 1, Min(TopSources, Len(sorted_sources)))
    IN  [method     |-> "synthesize_final_check",
         truthScore |-> np_mean([j \in 1 .. Len(top_sources) |->
                                   top_sources[j].credibility_score]),
         sources    |-> [j \in 1 .. Len(top_sources) |->
                           [url |-> top_sources[j].url,
                            credibility |-> top_sources[j].credibility_score]]]

\* ---- the methods called on their own
Calls ==
    { [method |-> "search_and_scrape", links |-> p] : p \in ResultPages }
    \cup { [method |-> "analyze_source_credibility", analysis |-> a] : a \in Answers }
    \cup { [method |-> "synthesize_final_check", sources |-> WithUrls(sc)] :
             sc \in AnalyzedSources }

endpoint_vars ==
    << connOpen, active_connections, hpc, nrecv, transcription, new_running,
       evaluation, client_statements, last_fact_checked_statement, hevents,
       runs, context_window, since, evalLog >>

InitAgent ==
    /\ InitWith({})
    /\ agent_call \in Calls
    /\ agent_result = NoCall

SearchAndScrape ==
    /\ agent_call.method = "search_and_scrape"
    /\ agent_result = NoCall
    /\ agent_result' = search_and_scrape(agent_call.links)
    /\ UNCHANGED << agent_call, endpoint_vars >>

AnalyzeSourceCredibility ==
    /\ agent_call.method = "analyze_source_credibility"
    /\ agent_result = NoCall
    /\ agent_result' = analyze_source_credibility([url |-> 1], agent_call.analysis)
    /\ UNCHANGED << agent_call, endpoint_vars >>

SynthesizeFinalCheck ==
    /\ agent_call.method = "synthesize_final_check"
    /\ agent_result = NoCall
    /\ agent_result' = synthesize_final_check(agent_call.sources)
    /\ UNCHANGED << agent_call, endpoint_vars >>

NextAgent ==
    \/ SearchAndScrape
    \/ AnalyzeSourceCredibility
    \/ SynthesizeFinalCheck

AgentSpec == InitAgent /\ [][NextAgent]_vars

\* ------------------------------------------------------------- properties
RunsOf(c) == SelectSeq(runs, LAMBDA r : r.client = c)

RECURSIVE JoinSpace(_)
JoinSpace(fs) ==
    IF fs = <<>> THEN <<>>
    ELSE IF Len(fs) = 1 THEN fs[1]
    ELSE fs[1] \o <<" ">> \o JoinSpace(Tail(fs))

EachRStripped(fs) == [j \in 1 .. Len(fs) |-> RStrip(fs[j])]

\* C1 as stated: every client's running statement is the trimmed
\* single-space join, in arrival order, of the fragments aggregated since the
\* last decision with action "new".
C1_TextIsTrimmedJoin ==
    \A c \in Clients : client_statements[c] = Strip(JoinSpace(since[c]))

\* C1 as amended: every client's running statement is the single-space join,
\* in arrival order, of the fragments aggregated since the last decision with
\* action "new", each fragment first stripped of its trailing whitespace, and
\* the whole stripped of leading whitespace (whitespace that ends a fragment
\* is lost before the next one is joined, whitespace that begins a later
\* fragment is kept).
C1_TextIsJoinOfRStripped ==
    \A c \in Clients :
        client_statements[c] = LStrip(JoinSpace(EachRStripped(since[c])))

\* two fragments aggregated, the first padded with whitespace
C1_Witness ==
    \E c \in Clients :
        /\ since[c] = << <<" ", "b", " ">>, <<"a">> >>
        /\ client_statements[c] = <<"b", " ", "a">>

\* C2: no two consecutive fact-check runs of one client are launched for the
\* same text (the consequence the claim draws from the lastCheckedText guard).
C2_NoConsecutiveRunsForSameText ==
    \A c \in Clients :
        \A j \in 1 .. (Len(RunsOf(c)) - 1) :
            RunsOf(c)[j].statement # RunsOf(c)[j + 1].statement

\* C3: at every instant at most one fact-check run per client is in flight.
C3_AtMostOneRunInFlight ==
    \A c \in Clients :
        Cardinality({ k \in DOMAIN runs :
                        runs[k].client = c /\ runs[k].pc \notin FinalPcs }) <= 1

CountType(evs, type) == Cardinality({ j \in 1 .. Len(evs) : evs[j].type = type })

LastType(evs) == IF evs = <<>> THEN "" ELSE evs[Len(evs)].type

Finished(k) == k \in DOMAIN runs /\ runs[k].pc \in FinalPcs

CompleteOutcomes == { "complete_new", "complete_append" }

\* a factCheck event is delivered at most once by a run and is then its last
\* event; a run that ended with no stage and no send failing delivered one
C4_OneFactCheckLast ==
    \A k \in DOMAIN runs :
        LET r == runs[k]
        IN  /\ CountType(r.events, "factCheck") <= 1
            /\ CountType(r.events, "factCheck") = 1 => LastType(r.events) = "factCheck"
            /\ (r.pc \in FinalPcs /\ r.cause = "none") =>
                   /\ r.pc = "done"
                   /\ CountType(r.events, "factCheck") = 1

\* fragments judged incomplete but for the last, judged complete with action
\* "new": one run is launched, for the whole text, and the running statement
\* is empty afterwards
C4_Scenario ==
    \A c \in Clients :
        LET log == evalLog[c]
        IN  ( /\ log # <<>>
              /\ log[Len(log)] = "complete_new"
              /\ \A j \in 1 .. (Len(log) - 1) : log[j] \notin CompleteOutcomes
              /\ hpc[c] # "evaluate" )
            => /\ Len(RunsOf(c)) = 1
               /\ RunsOf(c)[1].statement = new_running[c]
               /\ client_statements[c] = <<>>

\* C4: every launched run ends, a run in which no stage and no send fails ends
\* by delivering exactly one factCheck event, its last event; after fragments
\* judged incomplete but for the last (complete, "new"), exactly one run is
\* launched and the running statement is empty.
C4_SuccessfulRunDeliversOneFactCheck ==
    /\ [](C4_OneFactCheckLast /\ C4_Scenario)
    /\ \A k \in RunIds : (k \in DOMAIN runs) ~> Finished(k)

\* the two-fragment scenario, its run ended with the factCheck event
C4_Witness ==
    \E c \in Clients :
        /\ evalLog[c] = << "incomplete", "complete_new" >>
        /\ client_statements[c] = <<>>
        /\ Len(runs) = 1
        /\ runs[1].pc = "done"
        /\ runs[1].n = 2
        /\ Len(since[c]) = 0
        /\ LastType(runs[1].events) = "factCheck"

\* C5: a run in which a stage or a send failed delivered exactly
\* one error event, as its last event, and no factCheck event.
C5_FailedRunDeliversOneError ==
    \A k \in DOMAIN runs :
        LET r == runs[k]
        IN  r.cause # "none" =>
                /\ CountType(r.events, "error") = 1
                /\ LastType(r.events) = "error"
                /\ CountType(r.events, "factCheck") = 0

StatusEvents(evs) == SelectSeq(evs, LAMBDA e : e.type = "status")

\* num/den = value
IsProgress(e, value) == e.num = value * e.den

FixedProgress == << 0, 20, 40, 60, 90, 100 >>

\* C6 as stated: the status events of a run that ended with its result carry
\* exactly the progress values 0, 20, 40, 60, 90, 100, in that order.
C6_SixFixedStatusEvents ==
    \A k \in DOMAIN runs :
        runs[k].pc = "done" =>
            LET st == StatusEvents(runs[k].events)
            IN  /\ Len(st) = 6
                /\ \A j \in 1 .. 6 : IsProgress(st[j], FixedProgress[j])

\* C6 as amended: the status events of a run that ended with its result are
\* one per stage transition, with progress 0, 20, 40, 60, 90, 100 in that
\* order, and between 60 and 90 one more per scored document, the j-th of n
\* with progress 60 + 20 j / n; only a run with no document has the six fixed
\* values alone.
C6_StatusEventsPerStageAndDocument ==
    \A k \in DOMAIN runs :
        runs[k].pc = "done" =>
            LET st == StatusEvents(runs[k].events)
                n  == runs[k].n
            IN  /\ Len(st) = 6 + n
                /\ \A j \in 1 .. 4 : IsProgress(st[j], FixedProgress[j])
                /\ \A j \in 1 .. n : (st[4 + j].num - 60 * st[4 + j].den) * n
                                         = 20 * j * st[4 + j].den
                /\ IsProgress(st[5 + n], 90)
                /\ IsProgress(st[6 + n], 100)

\* a finished run over two documents, whose fifth status event carries 70
C6_Witness ==
    \E k \in DOMAIN runs :
        /\ runs[k].pc = "done"
        /\ runs[k].n = 2
        /\ IsProgress(StatusEvents(runs[k].events)[5], 70)

IsPrefix(s, t) == Len(s) <= Len(t) /\ SubSeq(t, 1, Len(s)) = s

IsCompleteNew(ev) == ev.complete /\ ev.action = "new"

\* the step of client c in which its evaluation returns
EvaluationReturns(c) == hpc[c] = "evaluate" /\ hpc'[c] # "evaluate"

\* the step of client c in which its fragment joins the running statement
FragmentAggregated(c) == hpc[c] = "send_transcription" /\ hpc'[c] = "evaluate"

\* C7: when an evaluation returns, the running statement is reset to empty if
\* and only if the decision is complete with action "new"; otherwise it stays
\* the text that was evaluated, and the next fragment extends it.
C7_ResetIffCompleteNew ==
    [][ \A c \in Clients :
          /\ EvaluationReturns(c) =>
                /\ new_running[c] = client_statements[c]
                /\ new_running[c] # <<>>
                /\ client_statements'[c] =
                       IF IsCompleteNew(evaluation'[c]) THEN <<>> ELSE new_running[c]
          /\ FragmentAggregated(c) =>
                /\ IsPrefix(client_statements[c], client_statements'[c])
                /\ Len(client_statements'[c]) > Len(client_statements[c]) ]_vars

\* a statement judged complete with "append", extended by the next fragment
\* and then judged complete with "new"
C7_Witness ==
    \E c \in Clients :
        /\ evalLog[c] = << "complete_append", "complete_new" >>
        /\ client_statements[c] = <<>>
        /\ Len(runs) = 2
        /\ runs[1].statement = <<"a">>
        /\ runs[2].statement = <<"a", " ", " ", "b">>

FailedOutcomes == { "raises", "unparseable" }

LastEvalFailed(log) == log # <<>> /\ log[Len(log)] \in FailedOutcomes

C9_TranscriptionEventPerAcceptedFragment ==
    /\ [](\A c \in Clients :
            /\ hpc[c] \in { "send_transcription", "evaluate" } =>
                   Strip(transcription[c]) # <<>>
            /\ CountType(hevents[c], "transcription")
                   = Len(evalLog[c]) + (IF hpc[c] = "evaluate" THEN 1 ELSE 0))
    /\ [][ \A c \in Clients :
             /\ (nrecv'[c] = nrecv[c] + 1 /\ Strip(transcription'[c]) = <<>>) =>
                   /\ hpc'[c] = "receive"
                   /\ CountType(hevents'[c], "transcription")
                          = CountType(hevents[c], "transcription")
                   /\ evalLog'[c] = evalLog[c]
                   /\ runs' = runs
                   /\ client_statements'[c] = client_statements[c]
             /\ CountType(hevents'[c], "transcription")
                    # CountType(hevents[c], "transcription") =>
                   /\ FragmentAggregated(c)
                   /\ hevents'[c] = Append(hevents[c], TranscriptionEvent(transcription[c]))
                   /\ since'[c] = Append(since[c], transcription[c]) ]_vars

\* one fragment accepted and evaluated, then a whitespace-only one dropped
C9_Witness ==
    \E c \in Clients :
        /\ nrecv[c] = 2
        /\ transcription[c] = <<" ">>
        /\ hpc[c] = "receive"
        /\ CountType(hevents[c], "transcription") = 1
        /\ client_statements[c] = <<"a">>
        /\ Len(evalLog[c]) = 1

\* the connection closed after the run's status 60 was delivered and before
\* all of its documents were scored and reported
ClosedDuringScoring(r) ==
    /\ ~connOpen[r.client]
    /\ r.n > 0
    /\ Len(StatusEvents(r.events)) >= 4
    /\ Len(StatusEvents(r.events)) < 4 + r.n

\* C10: when the connection closes while a run is in its Scoring stage and
\* none of the run's stages raises, no exception escapes the run's task.
C10_NoExceptionEscapesAfterClose ==
    \A k \in DOMAIN runs :
        (ClosedDuringScoring(runs[k]) /\ runs[k].cause # "stage")
            => runs[k].pc # "escaped"

\* ------------------------------------------------------------------ C11
InFlight(c) == { k \in DOMAIN runs : runs[k].client = c /\ runs[k].pc \notin FinalPcs }

\* the positions of the endpoint coroutine; none of them awaits a run
EndpointPcs == { "absent", "receive", "send_transcription", "evaluate", "exited" }

\* C11: ingestion is never blocked on a verification run. The endpoint is never
\* suspended on a run, and while a run of the client is in flight each step of
\* the ingestion path (receiving the next audio message, sending its
\* transcription and aggregating it, taking the completeness decision) can be
\* taken without the run advancing.
C11_IngestionNeverWaitsForRun ==
    \A c \in Clients :
        /\ hpc[c] \in EndpointPcs
        /\ InFlight(c) # {} =>
              /\ (hpc[c] = "receive" /\ connOpen[c] /\ nrecv[c] < MaxFrags)
                     => ENABLED (\E t \in Transcripts : ReceiveAudio(c, t))
              /\ hpc[c] = "send_transcription" => ENABLED SendTranscription(c)
              /\ hpc[c] = "evaluate"
                     => ENABLED (\E o \in EvalOutcomes : Evaluate(c, o))

\* a second fragment went through the whole ingestion path while the run
\* started by the first one had not taken a single step
C11_Witness ==
    \E c \in Clients :
        /\ Len(runs) >= 1
        /\ runs[1].client = c
        /\ runs[1].pc = "send_status0"
        /\ Len(evalLog[c]) = 2
        /\ Len(since[c]) >= 1

\* ------------------------------------------------------------------ C12
\* the "source" fields of the analysis events, in the order sent
AnalysisSources(evs) ==
    LET a == SelectSeq(evs, LAMBDA e : e.type = "analysis")
    IN  [j \in 1 .. Len(a) |-> a[j].arg]

\* C12 as stated: the analysis events of a run that ended with its result are
\* one per scored document and no other.
C12_OneAnalysisEventPerDocumentOnly ==
    \A k \in DOMAIN runs :
        runs[k].pc = "done" =>
            LET a == AnalysisSources(runs[k].events)
            IN  /\ Len(a) = runs[k].n
                /\ \A j \in 1 .. Len(a) : a[j] = DocumentSource(j)

\* C12 as amended: the first analysis event of a run is the one of the context
\* analysis; after it come the events of the scored documents, one per
\* document, in the order of the retrieved list, so the j-th of them is the
\* event of the document of rank j; a run that ended with its result sent
\* one for each of its n documents, 1 + n analysis events in all.
C12_ContextThenOneAnalysisEventPerDocument ==
    \A k \in DOMAIN runs :
        LET a == AnalysisSources(runs[k].events)
        IN  /\ Len(a) <= 1 + runs[k].n
            /\ a # <<>> => a[1] = ContextSource
            /\ \A j \in 2 .. Len(a) : a[j] = DocumentSource(j - 1)
            /\ runs[k].pc = "done" => Len(a) = 1 + runs[k].n

\* a run over two documents that ended with its result
C12_Witness ==
    \E k \in DOMAIN runs :
        /\ runs[k].pc = "done"
        /\ runs[k].n = 2
        /\ AnalysisSources(runs[k].events)
               = << ContextSource, DocumentSource(1), DocumentSource(2) >>

\* ------------------------------------------------------------------ C15
\* the positions inside `for i, source in enumerate(sources):`
ScoringPcs == { "analyze_source", "send_analysis", "send_progress" }

\* the calls of analyze_source_credibility started so far by a run inside the
\* loop: iteration i makes the call of sources[i] and awaits it
ScoringDispatched(r) == r.i + 1

\* the analysis events of documents delivered so far
DocumentEvents(r) ==
    Cardinality({ j \in 1 .. Len(r.events) :
                    /\ r.events[j].type = "analysis"
                    /\ r.events[j].arg.source = "url" })

\* the phases of the pipeline, in order
PhaseOrder == << "context", "search", "sources", "analysis", "synthesis", "complete" >>

PhaseIndex(phase) == CHOOSE j \in 1 .. Len(PhaseOrder) : PhaseOrder[j] = phase

\* the stages of a run are entered in pipeline order; the scoring loop is
\* entered only once retrieval has returned its list and the list was sent;
\* synthesis is entered only once every document has been scored
StagesInOrder(r) ==
    LET st == StatusEvents(r.events)
    IN  /\ \A j \in 1 .. (Len(st) - 1) :
               PhaseIndex(st[j].phase) <= PhaseIndex(st[j + 1].phase)
        /\ r.pc \in ScoringPcs =>
               /\ r.n > 0
               /\ CountType(r.events, "search") = 2
        /\ r.pc \in { "synthesize", "send_status100", "send_factCheck", "done" } =>
               DocumentEvents(r) = r.n

\* C15 as stated: the stages are sequential, and the scoring calls of a batch
\* are dispatched together: while one of them is awaited, all n were started.
C15_ScoringDispatchedConcurrently ==
    \A k \in DOMAIN runs :
        /\ StagesInOrder(runs[k])
        /\ runs[k].pc = "analyze_source" => ScoringDispatched(runs[k]) = runs[k].n

\* C15 as amended: the stages are sequential, no scoring call starts before
\* retrieval has returned, synthesis does not start before every scoring call
\* has returned, and the scoring calls are made one at a time in list order:
\* the call for the document of rank j starts only after the analysis event
\* and the status event of every document before it were sent.
C15_SequentialStagesAndScoring ==
    \A k \in DOMAIN runs :
        LET r == runs[k]
        IN  /\ StagesInOrder(r)
            /\ r.pc = "analyze_source" =>
                   /\ r.i < r.n
                   /\ DocumentEvents(r) = r.i
                   /\ Len(StatusEvents(r.events)) = 4 + r.i

\* the second scoring call of a run over two documents is awaited
C15_Witness ==
    \E k \in DOMAIN runs :
        /\ runs[k].pc = "analyze_source"
        /\ runs[k].n = 2
        /\ runs[k].i = 1

\* ------------------------------------------------------------------ C16
\* the text the guard of C2 would hold for a client: the text of the last run
\* launched for it, empty before the first
LastCheckedText(c) ==
    IF RunsOf(c) = <<>> THEN <<>> ELSE RunsOf(c)[Len(RunsOf(c))].statement

\* C16: when the completeness decision of an accepted fragment returns, a run
\* is launched if and only if the decision is complete and the running text
\* differs from the text last checked for the client; no run is launched on
\* an incomplete decision; the launched run's claim text is the full running
\* text at the decision, before any reset.
C16_LaunchIffCompleteAndUnchecked ==
    [][ \A c \in Clients :
          EvaluationReturns(c) =>
              runs' = IF /\ evaluation'[c].complete
                         /\ new_running[c] # LastCheckedText(c)
                      THEN Append(runs, NewRun(c, new_running[c]))
                      ELSE runs ]_vars

\* ------------------------------------------------------------------ C18
\* C18: once the endpoint of a client has left its loop and the connection is
\* torn down, no running statement and no last-checked text is held for the
\* client, so that a later connection with the same id starts from empty.
C18_StateReleasedAtTeardown ==
    \A c \in Clients :
        hpc[c] = "exited" =>
            /\ client_statements[c] = <<>>
            /\ last_fact_checked_statement[c] = <<>>

\* ------------------------------------------------------------------ C20
\* C20: within a run the progress values of the status events never decrease
\* and lie within [0, 100], whatever the number of documents (zero included);
\* a status event with progress 100 is followed by nothing but the factCheck
\* event, and the factCheck event comes right after it.
C20_ProgressMonotoneWithinRange ==
    \A k \in DOMAIN runs :
        LET evs == runs[k].events
            st  == StatusEvents(evs)
        IN  /\ \A j \in 1 .. Len(st) :
                   /\ st[j].den > 0
                   /\ 0 <= st[j].num
                   /\ st[j].num <= 100 * st[j].den
            /\ \A j \in 1 .. (Len(st) - 1) :
                   st[j].num * st[j + 1].den <= st[j + 1].num * st[j].den
            /\ \A j \in 1 .. Len(evs) :
                   /\ (evs[j].type = "status" /\ IsProgress(evs[j], 100)) =>
                          (j = Len(evs) \/ evs[j + 1].type = "factCheck")
                   /\ evs[j].type = "factCheck" =>
                          /\ j > 1
                          /\ evs[j - 1].type = "status"
                          /\ IsProgress(evs[j - 1], 100)

\* two runs that ended with their result, one over no document and one over
\* two
C20_Witness ==
    \E k1, k2 \in DOMAIN runs :
        /\ runs[k1].pc = "done" /\ runs[k1].n = 0
        /\ runs[k2].pc = "done" /\ runs[k2].n = 2
        /\ LastType(runs[k1].events) = "factCheck"
        /\ LastType(runs[k2].events) = "factCheck"

\* ------------------------------------------------------------------ C17
\* the texts a client's runs were launched for
StatementsOf(c) == { runs[k].statement : k \in { j \in DOMAIN runs : runs[j].client = c } }

\* C17: state and output are partitioned by client. The running statement
\* and the last-checked text of a client change only in steps of its own
\* endpoint, a run's claim text is its own client's running text, and the
\* prompt of a run is built from statements of its own client only.
C17_PartitionedByClient ==
    /\ [][ \A c \in Clients :
             (hpc'[c] = hpc[c]) =>
                 /\ client_statements'[c] = client_statements[c]
                 /\ last_fact_checked_statement'[c] = last_fact_checked_statement[c] ]_vars
    /\ [](\A k \in DOMAIN runs :
             \A j \in 1 .. Len(runs[k].prompt) :
                 runs[k].prompt[j] \in StatementsOf(runs[k].client))

\* ------------------------------------------------------------------ C13
ScoresOf(sources) == [j \in 1 .. Len(sources) |-> sources[j].credibility_score]

\* source a comes before source b in the order of selection: a higher score,
\* or the same score and an earlier place in the list
Precedes(a, b) ==
    \/ a.credibility_score > b.credibility_score
    \/ a.credibility_score = b.credibility_score /\ a.url < b.url

\* C13: for every list of n analysed sources, the sources of the result are
\* the first min(3, n) of the list sorted by score descending, ties in the
\* original order, given in that order with their own scores, and the truth
\* score is the arithmetic mean of the scores of those sources only: 70 for
\* the scores 90, 70, 50 and 80 for the scores 90, 80, 70, 10.
C13_TopThreeStableAndTheirMean ==
    agent_result.method = "synthesize_final_check" =>
        LET S   == agent_call.sources
            R   == agent_result.sources
            t   == agent_result.truthScore
            sel == { R[j].url : j \in 1 .. Len(R) }
        IN  /\ Len(R) = Min(3, Len(S))
            /\ \A j \in 1 .. Len(R) :
                   /\ R[j].url \in 1 .. Len(S)
                   /\ R[j].credibility = S[R[j].url].credibility_score
            /\ \A j \in 1 .. (Len(R) - 1) : Precedes(S[R[j].url], S[R[j + 1].url])
            /\ \A q \in (1 .. Len(S)) \ sel :
                   \A j \in 1 .. Len(R) : Precedes(S[R[j].url], S[q])
            /\ Len(R) > 0 =>
                   /\ t.den > 0
                   /\ t.num * Len(R) = SumSeq([j \in 1 .. Len(R) |-> R[j].credibility]) * t.den
            /\ ScoresOf(S) = << 90, 70, 50 >> => t.num = 70 * t.den
            /\ ScoresOf(S) = << 90, 80, 70, 10 >> => t.num = 80 * t.den

\* four sources with two ties: the result names the sources of rank 2, 4, 1
C13_Witness ==
    /\ agent_result.method = "synthesize_final_check"
    /\ ScoresOf(agent_call.sources) = << 70, 90, 70, 90 >>
    /\ agent_result.sources =
           << [url |-> 2, credibility |-> 90], [url |-> 4, credibility |-> 90],
              [url |-> 1, credibility |-> 70] >>
    /\ agent_result.truthScore.num * 3 = 250 * agent_result.truthScore.den

\* ------------------------------------------------------------------ C14
\* the answers from which the code reads a number: the marker is there and
\* what follows it on its line is a number once stripped
WellFormed(analysis) ==
    \E j \in Places(analysis, "Score:") :
        /\ j = First(Places(analysis, "Score:"))
        /\ FloatParses(Strip(Split(Split(analysis, "Score:")[2], "\n")[1]))

\* C14: whatever the language model answers, the score of an analysed source
\* lies within [0, 100], and it is exactly 50 when the answer is malformed;
\* the credibility values of the result's sources and its truth score lie
\* within [0, 100] too.
C14_ScoresWithinRange ==
    /\ agent_result.method = "analyze_source_credibility" =>
           /\ agent_result.credibility_score \in 0 .. 100
           /\ ~WellFormed(agent_call.analysis) =>
                  agent_result.credibility_score = DefaultScore
    /\ agent_result.method = "synthesize_final_check" =>
           /\ \A j \in 1 .. Len(agent_result.sources) :
                  agent_result.sources[j].credibility \in 0 .. 100
           /\ agent_result.truthScore.den > 0
           /\ 0 <= agent_result.truthScore.num
           /\ agent_result.truthScore.num <= 100 * agent_result.truthScore.den

\* ------------------------------------------------------------------ C19
\* the ranks of the pages that can be fetched with success
Fetchable(links) ==
    { j \in 1 .. Len(links) : ~links[j].raises /\ links[j].status = 200 }

\* C19: for every result page, at most 10 links are fetched, the first ones;
\* the returned list holds exactly the documents fetched with success among
\* them, in rank order, whatever the other fetches did (another status, an
\* exception), and the text of each is at most 5000 characters long, cut
\* when the page was longer.
C19_SuccessfulFetchesInRankOrder ==
    agent_result.method = "search_and_scrape" =>
        LET L == agent_call.links
            R == agent_result.sources
            U == agent_result.urls
        IN  /\ Len(U) <= 10
            /\ U = [j \in 1 .. Min(10, Len(L)) |-> j]
            /\ { R[j].url : j \in 1 .. Len(R) } = Fetchable(L) \cap (1 .. 10)
            /\ \A j \in 1 .. (Len(R) - 1) : R[j].url < R[j + 1].url
            /\ \A j \in 1 .. Len(R) :
                   /\ R[j].status = "success"
                   /\ R[j].content <= 5000
                   /\ R[j].content = Min(L[R[j].url].len, 5000)

\* a page of eleven links, the second unreachable and the fifth too long:
\* nine documents come back, the fifth link's cut to 5000 characters
C19_Witness ==
    /\ agent_result.method = "search_and_scrape"
    /\ Len(agent_call.links) = 11
    /\ agent_call.links[2].raises
    /\ agent_call.links[5].len = 6000
    /\ Len(agent_result.sources) = 9
    /\ agent_result.sources[1].url = 1
    /\ agent_result.sources[2].url = 3
    /\ agent_result.sources[4].content = 5000
    /\ agent_result.sources[9].url = 10

====
